---------------------------- MODULE Spec2Model ----------------------------
(***************************************************************************)
(* starknet.py: FeltSerializer                                             *)
(* (starknet_py/cairo/serialization/data_serializers/felt_serializer.py),  *)
(* AccountClient and merge_calls (starknet_py/net/account/                 *)
(* account_client.py) and get_storage_var_address                          *)
(* (starknet_py/hash/storage.py).                                          *)
(*                                                                         *)
(* A native value is a record [kind, v, s]:                                *)
(*   kind = "int"   a Python int, v its value                              *)
(*   kind = "bool"  a Python bool (a subclass of int), v = 0 or 1          *)
(*   kind = "str"   a Python str, s its sequence of character codes        *)
(*   kind = "other" any value that is neither int nor str (None, a list)   *)
(* An outcome carries err = "none" or the name of the error raised.        *)
(* The field prime and the short-string parameters are scaled down; the    *)
(* scaling keeps ShortstringBase^MAX_SHORTSTRING_LENGTH < FIELD_PRIME, as  *)
(* 256^31 < 2^251 + 17 * 2^192 + 1 in the program.                         *)
(***************************************************************************)
EXTENDS Integers, Sequences, FiniteSets, TLC

\* ---------------------------------------------------------------- sizes

\* The field modulus P (scaled down).
FIELD_PRIME == 17

\* One character of a short string is one digit in this base (256, scaled).
ShortstringBase == 4

\* Character codes below this are ASCII (128, scaled).
AsciiLimit == 2

\* Longest string encode_shortstring accepts (31, scaled).
MAX_SHORTSTRING_LENGTH == 2

\* Integers offered to serialize lie within IntMargin of [0, FIELD_PRIME].
IntMargin == 2

\* Longest string offered to serialize.
MaxStrLen == 3

\* Longest input sequence a cursor is created over.
MaxCursorLen == 3

\* deserialize is called at most this many times past the end of a cursor.
ExtraCalls == 2

\* ---------------------------------------------------------------- values

IntValue(n) == [kind |-> "int", v |-> n, s |-> <<>>]

BoolValue(b) == [kind |-> "bool", v |-> IF b THEN 1 ELSE 0, s |-> <<>>]

StrValue(str) == [kind |-> "str", v |-> 0, s |-> str]

OtherValue == [kind |-> "other", v |-> 0, s |-> <<>>]

SeqsUpTo(S, n) == UNION {[1..k -> S] : k \in 0..n}

Chars == 0..AsciiLimit

IntInputs == (0 - IntMargin)..(FIELD_PRIME + IntMargin)

Values ==
    {IntValue(n) : n \in IntInputs}
        \cup {BoolValue(b) : b \in BOOLEAN}
        \cup {StrValue(str) : str \in SeqsUpTo(Chars, MaxStrLen)}
        \cup {OtherValue}

\* Felts a cursor's input may hold: upstream data may be malformed.
CursorFelts == {0 - 1, 0, 1, FIELD_PRIME - 1, FIELD_PRIME}

\* ---------------------------------------------------------------- helpers

\* isinstance(value, str)
isinstance_str(value) == value.kind = "str"

\* isinstance(value, int): bool is a subclass of int
isinstance_int(value) == value.kind \in {"int", "bool"}

\* starknet_py.cairo.felt.is_in_felt_range
is_in_felt_range(value) == 0 <= value /\ value < FIELD_PRIME

RECURSIVE int_from_bytes(_)
\* int.from_bytes(text_bytes, "big")
int_from_bytes(str) ==
    IF str = <<>> THEN 0
    ELSE int_from_bytes(SubSeq(str, 1, Len(str) - 1)) * ShortstringBase
            + str[Len(str)]

\* starknet_py.cairo.felt.encode_shortstring: rejects a string that is too
\* long or not ASCII, otherwise packs it big-endian into one integer.
encode_shortstring(str) ==
    IF Len(str) > MAX_SHORTSTRING_LENGTH
        THEN [err |-> "ValueError", value |-> 0]
    ELSE IF \E i \in 1..Len(str) : str[i] >= AsciiLimit
        THEN [err |-> "ValueError", value |-> 0]
    ELSE [err |-> "none", value |-> int_from_bytes(str)]

\* Context.ensure_valid_type(value, valid, expected_type)
ensure_valid_type(valid) == IF valid THEN "none" ELSE "InvalidTypeError"

\* Context.ensure_valid_value(value, valid, text)
ensure_valid_value(valid) == IF valid THEN "none" ELSE "InvalidValueError"

\* CalldataReader.read(size) on input data at position
read(data, position, size) ==
    IF size > Len(data) - position
        THEN [err |-> "EndOfBufferError", values |-> <<>>, position |-> position]
    ELSE [err |-> "none",
          values |-> SubSeq(data, position + 1, position + size),
          position |-> position + size]

\* ---------------------------------------------------------------- FeltSerializer

_ensure_felt_accepts_prime(value) ==
    ensure_valid_value(0 <= value /\ value <= FIELD_PRIME)

_ensure_felt_rejects_max(value) ==
    ensure_valid_value(0 <= value /\ value < FIELD_PRIME - 1)

\* FeltSerializer._ensure_felt
_ensure_felt(value) == ensure_valid_value(is_in_felt_range(value))

SerOutcome(output, err, warned, checks) ==
    [output |-> output, err |-> err, warned |-> warned, checks |-> checks]

\* serialize_with_context without the type check: the range comparison
\* itself fails on a value that is no number.
serialize_with_context_no_type_check(value) ==
    IF isinstance_str(value) THEN
        LET enc == encode_shortstring(value.s) IN
        IF enc.err # "none"
            THEN SerOutcome(<<>>, enc.err, TRUE, <<>>)
            ELSE SerOutcome(<<enc.value>>, "none", TRUE, <<>>)
    ELSE IF ~isinstance_int(value)
        THEN SerOutcome(<<>>, "TypeError", FALSE, <<"range">>)
    ELSE IF _ensure_felt(value.v) # "none"
        THEN SerOutcome(<<>>, _ensure_felt(value.v), FALSE, <<"range">>)
    ELSE SerOutcome(<<value.v>>, "none", FALSE, <<"range">>)

\* serialize_with_context yielding the value before it validates it.
serialize_with_context_yield_first(value) ==
    IF isinstance_str(value) THEN
        LET enc == encode_shortstring(value.s) IN
        IF enc.err # "none"
            THEN SerOutcome(<<>>, enc.err, TRUE, <<>>)
            ELSE SerOutcome(<<enc.value>>, "none", TRUE, <<>>)
    ELSE IF ensure_valid_type(isinstance_int(value)) # "none"
        THEN SerOutcome(<<value.v>>, "InvalidTypeError", FALSE, <<"type">>)
    ELSE SerOutcome(<<value.v>>, _ensure_felt(value.v), FALSE,
                    <<"type", "range">>)

\* FeltSerializer.serialize_with_context, the generator run to its end:
\* output is what it yielded, checks the validations it made, in order.
serialize_with_context(value) ==
    IF isinstance_str(value) THEN
        LET enc == encode_shortstring(value.s) IN
        IF enc.err # "none"
            THEN SerOutcome(<<>>, enc.err, TRUE, <<>>)
            ELSE SerOutcome(<<enc.value>>, "none", TRUE, <<>>)
    ELSE IF ensure_valid_type(isinstance_int(value)) # "none"
        THEN SerOutcome(<<>>, "InvalidTypeError", FALSE, <<"type">>)
    ELSE IF _ensure_felt(value.v) # "none"
        THEN SerOutcome(<<>>, _ensure_felt(value.v), FALSE, <<"type", "range">>)
    ELSE SerOutcome(<<value.v>>, "none", FALSE, <<"type", "range">>)

DesOutcome(result, err, position) ==
    [result |-> result, err |-> err, position |-> position]

\* deserialize_with_context looking at the next felt without consuming it.
deserialize_with_context_no_advance(data, position) ==
    LET r == read(data, position, 1) IN
    IF r.err # "none" THEN DesOutcome(<<>>, r.err, position)
    ELSE IF _ensure_felt(r.values[1]) # "none"
        THEN DesOutcome(<<>>, _ensure_felt(r.values[1]), position)
    ELSE DesOutcome(<<r.values[1]>>, "none", position)

\* deserialize_with_context reducing the felt modulo P instead of
\* validating it.
deserialize_with_context_wraps(data, position) ==
    LET r == read(data, position, 1) IN
    IF r.err # "none" THEN DesOutcome(<<>>, r.err, r.position)
    ELSE DesOutcome(<<r.values[1] % FIELD_PRIME>>, "none", r.position)

\* deserialize_with_context reporting an exhausted cursor as a bad value.
deserialize_with_context_hides_end(data, position) ==
    LET r == read(data, position, 1) IN
    IF r.err # "none" THEN DesOutcome(<<>>, "InvalidValueError", r.position)
    ELSE IF _ensure_felt(r.values[1]) # "none"
        THEN DesOutcome(<<>>, _ensure_felt(r.values[1]), r.position)
    ELSE DesOutcome(<<r.values[1]>>, "none", r.position)

\* FeltSerializer.deserialize_with_context on a cursor (data, position)
deserialize_with_context(data, position) ==
    LET r == read(data, position, 1) IN
    IF r.err # "none" THEN DesOutcome(<<>>, r.err, r.position)
    ELSE IF _ensure_felt(r.values[1]) # "none"
        THEN DesOutcome(<<>>, _ensure_felt(r.values[1]), r.position)
    ELSE DesOutcome(<<r.values[1]>>, "none", r.position)

\* ---------------------------------------------------------------- state

VARIABLES
    op,         \* the last operation: "init", "serialize", "cursor", "deserialize"
    value,      \* the native value given to the last serialize call
    output,     \* the felts that call emitted
    serErr,     \* the error it raised, or "none"
    warned,     \* whether it emitted a DeprecationWarning
    checks,     \* the validations it made, in order
    data,       \* the input sequence of the current cursor
    position,   \* the cursor's position
    fromOutput, \* whether the cursor was created over output
    calls,      \* deserialize calls made on the current cursor
    result,     \* <<v>> when the last deserialize call returned v, else <<>>
    desErr,     \* the error the last deserialize call raised, or "none"
    returned    \* the values the successful calls on this cursor returned

VARIABLES
    mcCalls,    \* the calls given to merge_calls
    mcDone,     \* whether merge_calls has returned
    mcResult    \* what it returned: <<descriptors, entire_calldata>>

VARIABLES
    svName,     \* the var_name given to get_storage_var_address
    svArgs,     \* its args
    svDone,     \* whether the call has ended
    svErr,      \* the error it raised, or "none"
    svResult    \* <<r>> when it returned r, else <<>>

VARIABLES
    self_attrs, \* the instance attributes of the shared FeltSerializer
    inv         \* the invocations that share it, each with its own context

VARIABLES
    acct,       \* the AccountClient, once constructed
    aop,        \* the last operation called on it, "__init__" for construction
    aargs,      \* the arguments of that call and the responses the client gave
    aerr,       \* the error the call raised, or "none"
    aret,       \* what the call returned
    atrace      \* the requests, compilations and signings the call made, in order

feltVars == <<op, value, output, serErr, warned, checks, data, position,
              fromOutput, calls, result, desErr, returned>>

mergeVars == <<mcCalls, mcDone, mcResult>>

storageVars == <<svName, svArgs, svDone, svErr, svResult>>

sharedVars == <<self_attrs, inv>>

acctVars == <<acct, aop, aargs, aerr, aret, atrace>>

vars == <<feltVars, mergeVars, storageVars, sharedVars, acctVars>>

notFeltVars == <<mergeVars, storageVars, sharedVars, acctVars>>

notMergeVars == <<feltVars, storageVars, sharedVars, acctVars>>

notStorageVars == <<feltVars, mergeVars, sharedVars, acctVars>>

notSharedVars == <<feltVars, mergeVars, storageVars, acctVars>>

notAcctVars == <<feltVars, mergeVars, storageVars, sharedVars>>

\* An optional value: <<>> is None, <<x>> is x.
None == <<>>

Some(x) == <<x>>

\* AddressRepresentation: an int, or a str holding the number n.
IntAddress(n) == [form |-> "int", n |-> n]

StrAddress(n) == [form |-> "str", n |-> n]

\* A signer: a custom BaseSigner given by the caller (kind "custom"), or
\* the default StarkCurveSigner(account_address, key_pair, chain_id).
Signer(kind, account_address, key_pair, chain_id) ==
    [kind |-> kind, account_address |-> account_address,
     key_pair |-> key_pair, chain_id |-> chain_id]

NoSigner == Signer("none", 0, 0, "none")

CustomSigner == Signer("custom", 0, 0, "none")

\* The attributes __init__ sets.
Account(address, net, signer, supported_tx_version) ==
    [constructed |-> TRUE, address |-> address, net |-> net,
     signer |-> signer, supported_tx_version |-> supported_tx_version]

NoAccount ==
    [constructed |-> FALSE, address |-> 0, net |-> "none",
     signer |-> NoSigner, supported_tx_version |-> 0]

\* An account transaction (Invoke, Declare or DeployAccount); body holds
\* the fields that are its own (calldata, contract class, class hash ...).
Tx(type, version, max_fee, nonce, signature, body) ==
    [type |-> type, version |-> version, max_fee |-> max_fee,
     nonce |-> nonce, signature |-> signature, body |-> body]

NoTx == Tx("none", 0, 0, None, <<>>, <<>>)

\* A contract call, with the block it is made at.
ContractCall(to_addr, selector, calldata, block_hash) ==
    [to_addr |-> to_addr, selector |-> selector, calldata |-> calldata,
     block_hash |-> block_hash]

NoContractCall == ContractCall(0, "none", <<>>, "none")

\* One entry of atrace.
Event(ev, tx, call) == [ev |-> ev, tx |-> tx, call |-> call]

\* The arguments of a call and the responses of the client during it.
Args(fields) ==
    [k \in {"calls", "max_fee", "auto_estimate", "version", "nonceResp",
            "feeResp", "sendResp", "compiled", "body", "typed_data",
            "signature", "token_address", "callResp", "address", "net",
            "signer", "key_pair", "chain", "supported_tx_version"} |->
        IF k \in DOMAIN fields THEN fields[k] ELSE None]

\* What a call returned: a transaction, or a plain value.
Ret(tx, val) == [tx |-> tx, val |-> val]

NoRet == Ret(NoTx, None)

\* Invocations that run at the same time on one FeltSerializer.
NumInvocations == 2

\* The context of an invocation: what it was given, where it stands (pc is
\* the line of felt_serializer.py it executes next), and what it has produced;
\* overlapped records that it took a step while another invocation was running.
Invocation(kind, pc, input, cursor, position_, cur, out, err) ==
    [kind |-> kind, pc |-> pc, input |-> input, cursor |-> cursor,
     position |-> position_, cur |-> cur, out |-> out, err |-> err,
     overlapped |-> FALSE]

IdleInvocation == Invocation("idle", "done", OtherValue, <<>>, 0, 0, <<>>, "none")

serVars == <<value, output, serErr, warned, checks>>

FeltIdle ==
    /\ op = "init"
    /\ value = OtherValue
    /\ output = <<>>
    /\ serErr = "none"
    /\ warned = FALSE
    /\ checks = <<>>
    /\ data = <<>>
    /\ position = 0
    /\ fromOutput = FALSE
    /\ calls = 0
    /\ result = <<>>
    /\ desErr = "none"
    /\ returned = <<>>

\* merge_calls has not been called.
MergeIdle ==
    /\ mcCalls = <<>>
    /\ mcDone = FALSE
    /\ mcResult = <<>>

\* get_storage_var_address has not been called.
StorageIdle ==
    /\ svName = <<>>
    /\ svArgs = <<>>
    /\ svDone = FALSE
    /\ svErr = "none"
    /\ svResult = <<>>

\* A FeltSerializer has no attributes, and nothing has been invoked on it.
SharedIdle ==
    /\ self_attrs = <<>>
    /\ inv = [i \in 1..NumInvocations |-> IdleInvocation]

\* No AccountClient has been constructed.
AcctIdle ==
    /\ acct = NoAccount
    /\ aop = "none"
    /\ aargs = Args(<<>>)
    /\ aerr = "none"
    /\ aret = NoRet
    /\ atrace = <<>>

Init == FeltIdle /\ MergeIdle /\ StorageIdle /\ SharedIdle /\ AcctIdle

\* A cursor over d, at its start.
FreshCursor(d, isOutput) ==
    /\ data' = d
    /\ position' = 0
    /\ fromOutput' = isOutput
    /\ calls' = 0
    /\ result' = <<>>
    /\ desErr' = "none"
    /\ returned' = <<>>

\* serialize(v): a new serialization context, the generator run to its end.
Serialize ==
    \E v \in Values :
        LET r == serialize_with_context(v) IN
        /\ op' = "serialize"
        /\ value' = v
        /\ output' = r.output
        /\ serErr' = r.err
        /\ warned' = r.warned
        /\ checks' = r.checks
        /\ FreshCursor(<<>>, FALSE)
        /\ UNCHANGED notFeltVars

\* A deserialization context over the felts the last serialize call emitted.
CursorOverOutput ==
    /\ op = "serialize"
    /\ serErr = "none"
    /\ op' = "cursor"
    /\ FreshCursor(output, TRUE)
    /\ UNCHANGED <<serVars, notFeltVars>>

\* A deserialization context over felts that come from elsewhere.
CursorOverData ==
    \E d \in SeqsUpTo(CursorFelts, MaxCursorLen) :
        /\ op' = "cursor"
        /\ value' = OtherValue
        /\ output' = <<>>
        /\ serErr' = "none"
        /\ warned' = FALSE
        /\ checks' = <<>>
        /\ FreshCursor(d, FALSE)
        /\ UNCHANGED notFeltVars

\* One deserialize call on the current cursor.
Deserialize ==
    /\ op \in {"cursor", "deserialize"}
    /\ calls < Len(data) + ExtraCalls
    /\ LET r == deserialize_with_context(data, position) IN
        /\ op' = "deserialize"
        /\ position' = r.position
        /\ result' = r.result
        /\ desErr' = r.err
        /\ returned' = returned \o r.result
        /\ calls' = calls + 1
    /\ UNCHANGED <<serVars, data, fromOutput, notFeltVars>>

Next == Serialize \/ CursorOverOutput \/ CursorOverData \/ Deserialize

Spec == Init /\ [][Next]_vars

\* ---------------------------------------------------------------- merge_calls

\* Longest calldata of one call given to merge_calls.
MaxCalldataLen == 2

\* Most calls given to merge_calls.
MaxMergeCalls == 2

\* client_models.Call
Call(to_addr, selector, calldata) ==
    [to_addr |-> to_addr, selector |-> selector, calldata |-> calldata]

MergeInputCalls ==
    {Call(a, 3, cd) : a \in {1, 2}, cd \in SeqsUpTo({5, 9}, MaxCalldataLen)}

ParsedCall(descriptor, current_data_len, entire_calldata) ==
    [data |-> descriptor, current_data_len |-> current_data_len,
     entire_calldata |-> entire_calldata]

\* parse_call taking the offset after it has added the call's length.
parse_call_offset_after(call, current_data_len, entire_calldata) ==
    ParsedCall([to |-> call.to_addr,
                selector |-> call.selector,
                data_offset |-> current_data_len + Len(call.calldata),
                data_len |-> Len(call.calldata)],
               current_data_len + Len(call.calldata),
               entire_calldata \o call.calldata)

\* merge_calls.parse_call
parse_call(call, current_data_len, entire_calldata) ==
    ParsedCall([to |-> call.to_addr,
                selector |-> call.selector,
                data_offset |-> current_data_len,
                data_len |-> Len(call.calldata)],
               current_data_len + Len(call.calldata),
               entire_calldata \o call.calldata)

RECURSIVE merge_calls_loop(_, _, _, _)
\* the for loop of merge_calls over the calls that remain
merge_calls_loop(rest, calldata, current_data_len, entire_calldata) ==
    IF rest = <<>> THEN <<calldata, entire_calldata>>
    ELSE LET r == parse_call(Head(rest), current_data_len, entire_calldata) IN
         merge_calls_loop(Tail(rest), Append(calldata, r.data),
                          r.current_data_len, r.entire_calldata)

\* merge_calls
merge_calls(cs) == merge_calls_loop(cs, <<>>, 0, <<>>)

\* The caller has its calls at hand.
MergeInit ==
    /\ FeltIdle
    /\ StorageIdle
    /\ SharedIdle
    /\ AcctIdle
    /\ mcCalls \in SeqsUpTo(MergeInputCalls, MaxMergeCalls)
    /\ mcDone = FALSE
    /\ mcResult = <<>>

\* merge_calls(mcCalls)
MergeCalls ==
    /\ ~mcDone
    /\ mcDone' = TRUE
    /\ mcResult' = merge_calls(mcCalls)
    /\ UNCHANGED <<mcCalls, notMergeVars>>

MergeNext == MergeCalls

SpecMerge == MergeInit /\ [][MergeNext]_vars

\* ---------------------------------------------------------------- get_storage_var_address

\* The bound of storage addresses (2^251 - 256, scaled down).
ADDR_BOUND == 13

\* _starknet_keccak keeps the low 250 bits of the digest (2^250, scaled).
MASK_250 == 8

\* Longest var_name given to get_storage_var_address.
MaxNameLen == 2

\* Most args given to get_storage_var_address.
MaxStorageArgs == 2

StorageArgValues == {0, 1, 5, FIELD_PRIME - 1}

\* var_name.encode("ascii")
encode_ascii(name) ==
    IF \E i \in 1..Len(name) : name[i] >= AsciiLimit
        THEN [err |-> "UnicodeEncodeError", bytes |-> <<>>]
        ELSE [err |-> "none", bytes |-> name]

\* starknet_py.hash.utils._starknet_keccak: a digest below 2^250
_starknet_keccak(bytes) ==
    (5 * int_from_bytes(bytes) + 3 * Len(bytes) + 6) % MASK_250

\* starknet_py.hash.utils.pedersen_hash: a hash of two felts, in [0, P)
pedersen_hash(a, b) == (3 * a * a + a * b + 7 * b + 1) % FIELD_PRIME

RECURSIVE reduce_pedersen_reduces_each_step(_, _)
\* A fold that reduces modulo ADDR_BOUND after every step.
reduce_pedersen_reduces_each_step(args, res) ==
    IF args = <<>> THEN res
    ELSE reduce_pedersen_reduces_each_step(
            Tail(args), pedersen_hash(res, Head(args)) % ADDR_BOUND)

RECURSIVE reduce_pedersen(_, _)
\* functools.reduce(pedersen_hash, args, res)
reduce_pedersen(args, res) ==
    IF args = <<>> THEN res
    ELSE reduce_pedersen(Tail(args), pedersen_hash(res, Head(args)))

\* get_storage_var_address(var_name, *args)
get_storage_var_address(var_name, args) ==
    LET enc == encode_ascii(var_name) IN
    IF enc.err # "none" THEN [err |-> enc.err, result |-> <<>>]
    ELSE [err |-> "none",
          result |-> <<reduce_pedersen(args, _starknet_keccak(enc.bytes))
                            % ADDR_BOUND>>]

\* The caller has a name and args at hand.
StorageInit ==
    /\ FeltIdle
    /\ MergeIdle
    /\ SharedIdle
    /\ AcctIdle
    /\ svName \in SeqsUpTo(Chars, MaxNameLen)
    /\ svArgs \in SeqsUpTo(StorageArgValues, MaxStorageArgs)
    /\ svDone = FALSE
    /\ svErr = "none"
    /\ svResult = <<>>

\* get_storage_var_address(svName, *svArgs)
GetStorageVarAddress ==
    /\ ~svDone
    /\ LET r == get_storage_var_address(svName, svArgs) IN
        /\ svDone' = TRUE
        /\ svErr' = r.err
        /\ svResult' = r.result
    /\ UNCHANGED <<svName, svArgs, notStorageVars>>

StorageNext == GetStorageVarAddress

SpecStorage == StorageInit /\ [][StorageNext]_vars

\* ---------------------------------------------------------------- a shared FeltSerializer

\* Values and cursors the concurrent invocations are given.
SharedValues ==
    {IntValue(0), IntValue(1), IntValue(FIELD_PRIME), StrValue(<<1>>),
     OtherValue}

SharedCursors == {<<>>, <<0>>, <<1>>, <<FIELD_PRIME>>}

Stepped(attrs, local) == [attrs |-> attrs, local |-> local]

Finished(local, out, err) == [local EXCEPT !.pc = "done", !.out = out, !.err = err]

\* A serializer that keeps the value it works on in an attribute of self.
step_with_context_value_on_self(attrs, local) ==
    IF local.kind = "ser" /\ local.pc = "l31" THEN
        IF isinstance_str(local.input) THEN
            LET enc == encode_shortstring(local.input.s) IN
            IF enc.err # "none"
                THEN Stepped(attrs, Finished(local, <<>>, enc.err))
                ELSE Stepped(<<enc.value>>, [local EXCEPT !.pc = "l38"])
        ELSE IF ensure_valid_type(isinstance_int(local.input)) # "none"
            THEN Stepped(attrs, Finished(local, <<>>, "InvalidTypeError"))
        ELSE Stepped(<<local.input.v>>, [local EXCEPT !.pc = "l42"])
    ELSE IF local.kind = "ser" /\ local.pc = "l42" THEN
        IF _ensure_felt(attrs[1]) # "none"
            THEN Stepped(attrs, Finished(local, <<>>, _ensure_felt(attrs[1])))
            ELSE Stepped(attrs, [local EXCEPT !.pc = "l43"])
    ELSE IF local.kind = "ser" THEN
        Stepped(attrs, Finished(local, <<attrs[1]>>, "none"))
    ELSE IF local.pc = "l24" THEN
        LET r == read(local.cursor, local.position, 1) IN
        IF r.err # "none"
            THEN Stepped(attrs, Finished(local, <<>>, r.err))
            ELSE Stepped(<<r.values[1]>>,
                         [local EXCEPT !.pc = "l25", !.position = r.position])
    ELSE IF local.pc = "l25" THEN
        IF _ensure_felt(attrs[1]) # "none"
            THEN Stepped(attrs, Finished(local, <<>>, _ensure_felt(attrs[1])))
            ELSE Stepped(attrs, [local EXCEPT !.pc = "l26"])
    ELSE Stepped(attrs, Finished(local, <<attrs[1]>>, "none"))

\* One line of FeltSerializer.serialize_with_context (kind "ser") or of
\* FeltSerializer.deserialize_with_context (kind "des"), executed by an
\* invocation with context local on a serializer with attributes attrs.
step_with_context(attrs, local) ==
    IF local.kind = "ser" /\ local.pc = "l31" THEN
        IF isinstance_str(local.input) THEN
            LET enc == encode_shortstring(local.input.s) IN
            IF enc.err # "none"
                THEN Stepped(attrs, Finished(local, <<>>, enc.err))
                ELSE Stepped(attrs, [local EXCEPT !.pc = "l38", !.cur = enc.value])
        ELSE IF ensure_valid_type(isinstance_int(local.input)) # "none"
            THEN Stepped(attrs, Finished(local, <<>>, "InvalidTypeError"))
        ELSE Stepped(attrs, [local EXCEPT !.pc = "l42", !.cur = local.input.v])
    ELSE IF local.kind = "ser" /\ local.pc = "l42" THEN
        IF _ensure_felt(local.cur) # "none"
            THEN Stepped(attrs, Finished(local, <<>>, _ensure_felt(local.cur)))
            ELSE Stepped(attrs, [local EXCEPT !.pc = "l43"])
    ELSE IF local.kind = "ser" THEN
        Stepped(attrs, Finished(local, <<local.cur>>, "none"))
    ELSE IF local.pc = "l24" THEN
        LET r == read(local.cursor, local.position, 1) IN
        IF r.err # "none"
            THEN Stepped(attrs, Finished(local, <<>>, r.err))
            ELSE Stepped(attrs,
                         [local EXCEPT !.pc = "l25", !.position = r.position,
                                       !.cur = r.values[1]])
    ELSE IF local.pc = "l25" THEN
        IF _ensure_felt(local.cur) # "none"
            THEN Stepped(attrs, Finished(local, <<>>, _ensure_felt(local.cur)))
            ELSE Stepped(attrs, [local EXCEPT !.pc = "l26"])
    ELSE Stepped(attrs, Finished(local, <<local.cur>>, "none"))

\* A caller starts serialize_with_context with a context of its own.
StartSerialize ==
    \E i \in 1..NumInvocations, v \in SharedValues :
        /\ inv[i].pc = "done"
        /\ inv' = [inv EXCEPT ![i] =
                    Invocation("ser", "l31", v, <<>>, 0, 0, <<>>, "none")]
        /\ UNCHANGED <<self_attrs, notSharedVars>>

\* A caller starts deserialize_with_context with a cursor of its own.
StartDeserialize ==
    \E i \in 1..NumInvocations, d \in SharedCursors :
        /\ inv[i].pc = "done"
        /\ inv' = [inv EXCEPT ![i] =
                    Invocation("des", "l24", OtherValue, d, 0, 0, <<>>, "none")]
        /\ UNCHANGED <<self_attrs, notSharedVars>>

\* One invocation executes its next line.
StepInvocation ==
    \E i \in 1..NumInvocations :
        /\ inv[i].pc # "done"
        /\ LET r == step_with_context(self_attrs, inv[i]) IN
            /\ self_attrs' = r.attrs
            /\ inv' = [inv EXCEPT ![i] =
                        [r.local EXCEPT !.overlapped =
                            \/ inv[i].overlapped
                            \/ \E j \in 1..NumInvocations :
                                    j # i /\ inv[j].pc # "done"]]
        /\ UNCHANGED notSharedVars

SharedNext == StartSerialize \/ StartDeserialize \/ StepInvocation

SpecShared == Init /\ [][SharedNext]_vars

\* ---------------------------------------------------------------- AccountClient

Nets == {"mainnet", "testnet", "testnet2", "custom"}

\* starknet_py.net.models.chain_from_network: the chain of a predefined
\* network, else the chain given.
chain_from_network(net, chain) ==
    IF net = "mainnet" THEN "MAINNET"
    ELSE IF net = "testnet" THEN "TESTNET"
    ELSE IF net = "testnet2" THEN "TESTNET2"
    ELSE chain[1]

\* starknet_py.net.models.address.parse_address
parse_address(a) == a.n

Constructed(err, account) == [err |-> err, account |-> account]

\* __init__ asking for a key_pair although a signer was given.
AccountClient_init_always_needs_key_pair(address, client_net, signer, key_pair, chain, supported_tx_version) ==
    IF chain = None /\ signer = None THEN Constructed("ValueError", NoAccount)
    ELSE IF key_pair = None THEN Constructed("ValueError", NoAccount)
    ELSE IF signer = None THEN
        Constructed("none",
            Account(parse_address(address), client_net,
                    Signer("StarkCurveSigner", parse_address(address),
                           key_pair[1], chain_from_network(client_net, chain)),
                    supported_tx_version))
    ELSE Constructed("none",
            Account(parse_address(address), client_net, signer[1],
                    supported_tx_version))

\* AccountClient.__init__
AccountClient_init(address, client_net, signer, key_pair, chain, supported_tx_version) ==
    IF chain = None /\ signer = None THEN Constructed("ValueError", NoAccount)
    ELSE IF signer = None THEN
        IF key_pair = None THEN Constructed("ValueError", NoAccount)
        ELSE Constructed("none",
                Account(parse_address(address), client_net,
                        Signer("StarkCurveSigner", parse_address(address),
                               key_pair[1],
                               chain_from_network(client_net, chain)),
                        supported_tx_version))
    ELSE Constructed("none",
            Account(parse_address(address), client_net, signer[1],
                    supported_tx_version))

\* What a method call comes to: the error raised or "none", the transaction
\* or value returned, and the requests and signings made, in order.
Out(err, tx, val, trace) == [err |-> err, tx |-> tx, val |-> val, trace |-> trace]

Raised(err, trace) == Out(err, NoTx, None, trace)

TypeCode(type) ==
    CASE type = "Invoke" -> 1
      [] type = "Declare" -> 2
      [] type = "DeployAccount" -> 3
      [] OTHER -> 0

\* BaseSigner.sign_transaction: a signature over the transaction's hash,
\* which covers its type, version, max_fee and nonce.
sign_transaction(signer, tx) ==
    <<IF signer.kind = "custom" THEN 99 ELSE signer.key_pair,
      TypeCode(tx.type), tx.version, tx.max_fee,
      IF tx.nonce = None THEN 0 - 1 ELSE tx.nonce[1]>>

\* add_signature_to_transaction
add_signature_to_transaction(tx, signature) ==
    [tx EXCEPT !.signature = signature]

\* AccountClient._get_nonce
_get_nonce(self, nonceResp) ==
    LET ev == IF self.supported_tx_version = 1
                THEN Event("get_contract_nonce", NoTx,
                           ContractCall(self.address, "none", <<>>, "latest"))
                ELSE Event("call_contract", NoTx,
                           ContractCall(self.address, "get_nonce", <<>>, "pending"))
    IN IF nonceResp = None
        THEN Raised("ClientError", <<ev>>)
        ELSE Out("none", NoTx, nonceResp, <<ev>>)

\* AccountClient.estimate_fee
estimate_fee(self, tx, feeResp) ==
    LET signature == sign_transaction(self.signer, tx)
        signed == add_signature_to_transaction(tx, signature)
        trace == <<Event("sign_transaction", tx, NoContractCall),
                   Event("estimate_fee", signed, NoContractCall)>>
    IN IF feeResp = None
        THEN Raised("ClientError", trace)
        ELSE Out("none", NoTx, feeResp, trace)

\* _get_max_fee testing max_fee for truth instead of for None.
_get_max_fee_tests_truth(self, transaction, max_fee, auto_estimate, feeResp) ==
    IF auto_estimate /\ max_fee # None /\ max_fee # Some(0)
        THEN Raised("ValueError", <<>>)
    ELSE IF transaction.type \in {"Declare", "DeployAccount"}
            /\ transaction.version # 1
        THEN Raised("ValueError", <<>>)
    ELSE IF auto_estimate THEN
        LET e == estimate_fee(self, transaction, feeResp) IN
        IF e.err # "none" THEN e
        ELSE Out("none", NoTx, Some((e.val[1] * 11) \div 10), e.trace)
    ELSE IF max_fee = None \/ max_fee = Some(0) THEN Raised("ValueError", <<>>)
    ELSE Out("none", NoTx, max_fee, <<>>)

\* AccountClient._get_max_fee; int(overall_fee * 1.1) is the floor of
\* 11 * overall_fee / 10
_get_max_fee(self, transaction, max_fee, auto_estimate, feeResp) ==
    IF auto_estimate /\ max_fee # None THEN Raised("ValueError", <<>>)
    ELSE IF transaction.type \in {"Declare", "DeployAccount"}
            /\ transaction.version # 1
        THEN Raised("ValueError", <<>>)
    ELSE IF auto_estimate THEN
        LET e == estimate_fee(self, transaction, feeResp) IN
        IF e.err # "none" THEN e
        ELSE Out("none", NoTx, Some((e.val[1] * 11) \div 10), e.trace)
    ELSE IF max_fee = None THEN Raised("ValueError", <<>>)
    ELSE Out("none", NoTx, max_fee, <<>>)

\* AccountClient._assert_version_matches_supported_tx_version
_assert_version_matches_supported_tx_version(self, version) ==
    IF version # self.supported_tx_version THEN "ValueError" ELSE "none"

RECURSIVE FlattenDescriptors(_)
FlattenDescriptors(ds) ==
    IF ds = <<>> THEN <<>>
    ELSE <<Head(ds).to, Head(ds).selector, Head(ds).data_offset,
           Head(ds).data_len>> \o FlattenDescriptors(Tail(ds))

\* execute_transformer_by_version(version).from_python(*calldata_py): the
\* call array and the calldata, each after its length, then the nonce if
\* one was appended.
from_python(calldata_py) ==
    <<Len(calldata_py[1])>> \o FlattenDescriptors(calldata_py[1])
        \o <<Len(calldata_py[2])>> \o calldata_py[2]
        \o IF Len(calldata_py) = 3 THEN <<calldata_py[3]>> ELSE <<>>

\* _make_invoke_by_version
_make_invoke_by_version(contract_address, calldata, signature, max_fee, version, nonce, entry_point_selector) ==
    Tx("Invoke", version, max_fee, nonce, signature,
       [calldata |-> calldata, contract_address |-> contract_address,
        entry_point_selector |->
            IF version = 0 THEN Some(entry_point_selector) ELSE None])

\* The rest of prepare_invoke_function once it has the version.
PrepareInvoke(self, cs, max_fee, auto_estimate, version, nonceResp, feeResp) ==
    LET n == _get_nonce(self, nonceResp) IN
    IF n.err # "none" THEN n
    ELSE
        LET nonce == n.val[1]
            merged == merge_calls(cs)
            calldata_py == IF version = 0 THEN Append(merged, nonce) ELSE merged
            wrapped_calldata == from_python(calldata_py)
            transaction ==
                _make_invoke_by_version(
                    self.address, wrapped_calldata, <<>>, 0, version,
                    IF version = 0 THEN None ELSE Some(nonce), "__execute__")
            f == _get_max_fee(self, transaction, max_fee, auto_estimate, feeResp)
        IN IF f.err # "none" THEN Raised(f.err, n.trace \o f.trace)
           ELSE Out("none", [transaction EXCEPT !.max_fee = f.val[1]], None,
                    n.trace \o f.trace)

\* prepare_invoke_function comparing the versions after it fetched the nonce.
prepare_invoke_function_checks_late(self, cs, max_fee, auto_estimate, version, nonceResp, feeResp) ==
    LET v == IF version = None THEN self.supported_tx_version ELSE version[1]
        n == _get_nonce(self, nonceResp) IN
    IF n.err # "none" THEN n
    ELSE IF _assert_version_matches_supported_tx_version(self, v) # "none"
        THEN Raised("ValueError", n.trace)
    ELSE PrepareInvoke(self, cs, max_fee, auto_estimate, v, nonceResp, feeResp)

\* AccountClient.prepare_invoke_function
prepare_invoke_function(self, cs, max_fee, auto_estimate, version, nonceResp, feeResp) ==
    LET v == IF version = None THEN self.supported_tx_version ELSE version[1] IN
    IF _assert_version_matches_supported_tx_version(self, v) # "none"
        THEN Raised("ValueError", <<>>)
    ELSE PrepareInvoke(self, cs, max_fee, auto_estimate, v, nonceResp, feeResp)

\* AccountClient.sign_invoke_transaction
sign_invoke_transaction(self, cs, max_fee, auto_estimate, version, nonceResp, feeResp) ==
    LET v == IF version = None THEN Some(self.supported_tx_version) ELSE version
        p == prepare_invoke_function(self, cs, max_fee, auto_estimate, v,
                                     nonceResp, feeResp)
    IN IF p.err # "none" THEN p
       ELSE LET signature == sign_transaction(self.signer, p.tx) IN
            Out("none", add_signature_to_transaction(p.tx, signature), None,
                Append(p.trace, Event("sign_transaction", p.tx, NoContractCall)))

\* AccountClient.send_transaction
send_transaction(self, transaction, sendResp) ==
    LET trace == <<Event("send_transaction", transaction, NoContractCall)>> IN
    IF sendResp = None THEN Raised("ClientError", trace)
    ELSE Out("none", NoTx, sendResp, trace)

\* AccountClient.execute
execute(self, cs, max_fee, auto_estimate, version, nonceResp, feeResp, sendResp) ==
    LET s == sign_invoke_transaction(self, cs, max_fee, auto_estimate, version,
                                     nonceResp, feeResp) IN
    IF s.err # "none" THEN s
    ELSE LET r == send_transaction(self, s.tx, sendResp) IN
         Out(r.err, NoTx, r.val, s.trace \o r.trace)

\* sign_declare_transaction signing before it has replaced max_fee.
sign_declare_transaction_signs_early(self, compiled, max_fee, auto_estimate, nonceResp, feeResp) ==
    IF self.supported_tx_version # 1 THEN Raised("ValueError", <<>>)
    ELSE
        LET c == <<Event("create_compiled_contract", NoTx, NoContractCall)>> IN
        IF compiled = None THEN Raised("ValueError", c)
        ELSE
            LET n == _get_nonce(self, nonceResp) IN
            IF n.err # "none" THEN Raised(n.err, c \o n.trace)
            ELSE
                LET declare_tx ==
                        Tx("Declare", self.supported_tx_version, 0, n.val, <<>>,
                           [contract_class |-> compiled[1],
                            sender_address |-> self.address])
                    f == _get_max_fee(self, declare_tx, max_fee, auto_estimate,
                                      feeResp)
                IN IF f.err # "none" THEN Raised(f.err, c \o n.trace \o f.trace)
                   ELSE
                    LET signature == sign_transaction(self.signer, declare_tx) IN
                    Out("none",
                        [declare_tx EXCEPT !.signature = signature,
                                           !.max_fee = f.val[1]],
                        None,
                        c \o n.trace \o f.trace
                            \o <<Event("sign_transaction", declare_tx,
                                       NoContractCall)>>)

\* AccountClient.sign_declare_transaction; compiled is None when
\* create_compiled_contract is given nothing to compile
sign_declare_transaction(self, compiled, max_fee, auto_estimate, nonceResp, feeResp) ==
    IF self.supported_tx_version # 1 THEN Raised("ValueError", <<>>)
    ELSE
        LET c == <<Event("create_compiled_contract", NoTx, NoContractCall)>> IN
        IF compiled = None THEN Raised("ValueError", c)
        ELSE
            LET n == _get_nonce(self, nonceResp) IN
            IF n.err # "none" THEN Raised(n.err, c \o n.trace)
            ELSE
                LET declare_tx0 ==
                        Tx("Declare", self.supported_tx_version, 0, n.val, <<>>,
                           [contract_class |-> compiled[1],
                            sender_address |-> self.address])
                    f == _get_max_fee(self, declare_tx0, max_fee, auto_estimate,
                                      feeResp)
                IN IF f.err # "none" THEN Raised(f.err, c \o n.trace \o f.trace)
                   ELSE
                    LET declare_tx == [declare_tx0 EXCEPT !.max_fee = f.val[1]]
                        signature == sign_transaction(self.signer, declare_tx)
                    IN Out("none",
                           [declare_tx EXCEPT !.signature = signature,
                                              !.max_fee = f.val[1]],
                           None,
                           c \o n.trace \o f.trace
                                \o <<Event("sign_transaction", declare_tx,
                                           NoContractCall)>>)

\* sign_deploy_account_transaction without the check of the version.
sign_deploy_account_transaction_any_version(self, class_hash, contract_address_salt, constructor_calldata, max_fee, auto_estimate, feeResp) ==
    LET deploy_account_tx0 ==
            Tx("DeployAccount", self.supported_tx_version, 0, Some(0), <<>>,
               [class_hash |-> class_hash,
                contract_address_salt |-> contract_address_salt,
                constructor_calldata |->
                    IF constructor_calldata = None
                            \/ constructor_calldata = Some(<<>>)
                        THEN <<>> ELSE constructor_calldata[1]])
        signature == sign_transaction(self.signer, deploy_account_tx0)
    IN IF self.supported_tx_version # 1
        THEN Out("none", [deploy_account_tx0 EXCEPT !.signature = signature],
                 None,
                 <<Event("sign_transaction", deploy_account_tx0, NoContractCall)>>)
        ELSE
            LET f == _get_max_fee(self, deploy_account_tx0, max_fee,
                                  auto_estimate, feeResp) IN
            IF f.err # "none" THEN Raised(f.err, f.trace)
            ELSE
                LET deploy_account_tx ==
                        [deploy_account_tx0 EXCEPT !.max_fee = f.val[1]]
                    sig == sign_transaction(self.signer, deploy_account_tx)
                IN Out("none", [deploy_account_tx EXCEPT !.signature = sig],
                       None,
                       Append(f.trace, Event("sign_transaction",
                                             deploy_account_tx, NoContractCall)))

\* AccountClient.sign_deploy_account_transaction
sign_deploy_account_transaction(self, class_hash, contract_address_salt, constructor_calldata, max_fee, auto_estimate, feeResp) ==
    IF self.supported_tx_version # 1 THEN Raised("ValueError", <<>>)
    ELSE
        LET deploy_account_tx0 ==
                Tx("DeployAccount", self.supported_tx_version, 0, Some(0), <<>>,
                   [class_hash |-> class_hash,
                    contract_address_salt |-> contract_address_salt,
                    constructor_calldata |->
                        IF constructor_calldata = None
                                \/ constructor_calldata = Some(<<>>)
                            THEN <<>> ELSE constructor_calldata[1]])
            f == _get_max_fee(self, deploy_account_tx0, max_fee, auto_estimate,
                              feeResp)
        IN IF f.err # "none" THEN Raised(f.err, f.trace)
           ELSE
            LET deploy_account_tx ==
                    [deploy_account_tx0 EXCEPT !.max_fee = f.val[1]]
                signature == sign_transaction(self.signer, deploy_account_tx)
            IN Out("none", [deploy_account_tx EXCEPT !.signature = signature],
                   None,
                   Append(f.trace, Event("sign_transaction", deploy_account_tx,
                                         NoContractCall)))

\* TypedDataDataclass.message_hash(account_address): a hash of the typed
\* data and the address of the account.
hash_message(self, typed_data) == (typed_data * 3 + self.address) % FIELD_PRIME

\* What self.call_contract comes to: a result, a ClientError with its
\* message, or another exception. A message is a sequence of tokens: the
\* words of the pattern, "ws" (a blank), "nl" (a newline) and "x" (any
\* other text without a newline).
Response(kind, message, res) == [kind |-> kind, message |-> message, res |-> res]

WhiteSpace == {"ws", "nl"}

\* re.search(r"Signature\s.+,\sis\sinvalid", message): somewhere in the
\* message the pattern matches; . matches anything but a newline.
SignatureIsInvalid(message) ==
    \E i \in 1..Len(message), j \in 1..Len(message) :
        /\ j >= i + 3
        /\ j + 4 <= Len(message)
        /\ message[i] = "Signature"
        /\ message[i + 1] \in WhiteSpace
        /\ \A k \in (i + 2)..(j - 1) : message[k] # "nl"
        /\ message[j] = ","
        /\ message[j + 1] \in WhiteSpace
        /\ message[j + 2] = "is"
        /\ message[j + 3] \in WhiteSpace
        /\ message[j + 4] = "invalid"

\* _verify_message_hash answering False to every ClientError.
_verify_message_hash_any_client_error(self, msg_hash, signature, callResp) ==
    LET calldata == <<msg_hash, Len(signature)>> \o signature
        call == ContractCall(self.address, "is_valid_signature", calldata,
                             "pending")
        trace == <<Event("call_contract", NoTx, call)>>
    IN IF callResp.kind = "ok" THEN Out("none", NoTx, Some(TRUE), trace)
       ELSE IF callResp.kind = "ClientError"
        THEN Out("none", NoTx, Some(FALSE), trace)
       ELSE Raised(callResp.kind, trace)

\* AccountClient._verify_message_hash
_verify_message_hash(self, msg_hash, signature, callResp) ==
    LET calldata == <<msg_hash, Len(signature)>> \o signature
        call == ContractCall(self.address, "is_valid_signature", calldata,
                             "pending")
        trace == <<Event("call_contract", NoTx, call)>>
    IN IF callResp.kind = "ok" THEN Out("none", NoTx, Some(TRUE), trace)
       ELSE IF callResp.kind = "ClientError"
        THEN IF SignatureIsInvalid(callResp.message)
                THEN Out("none", NoTx, Some(FALSE), trace)
                ELSE Raised("ClientError", trace)
       ELSE Raised(callResp.kind, trace)

\* AccountClient.verify_message
verify_message(self, typed_data, signature, callResp) ==
    _verify_message_hash(self, hash_message(self, typed_data), signature,
                         callResp)

FEE_CONTRACT_ADDRESS == 6

\* The width of the low word of a balance (high << HighShift).
HighShift == 4

\* Python's truth value of token_address: None and the integer 0 are false,
\* a non-empty string is true.
Truthy(token_address) ==
    /\ token_address # None
    /\ ~(token_address[1].form = "int" /\ token_address[1].n = 0)

\* AccountClient._get_default_token_address
_get_default_token_address(self) ==
    IF self.net \notin {"testnet", "testnet2", "mainnet"}
        THEN Raised("ValueError", <<>>)
        ELSE Out("none", NoTx, Some(IntAddress(FEE_CONTRACT_ADDRESS)), <<>>)

\* AccountClient.get_balance
get_balance(self, token_address, callResp) ==
    LET t == IF Truthy(token_address)
                THEN Out("none", NoTx, token_address, <<>>)
                ELSE _get_default_token_address(self)
    IN IF t.err # "none" THEN t
       ELSE
        LET call == ContractCall(parse_address(t.val[1]), "balanceOf",
                                 <<self.address>>, "pending")
            trace == <<Event("call_contract", NoTx, call)>>
        IN IF callResp.kind # "ok" THEN Raised(callResp.kind, trace)
           ELSE IF Len(callResp.res) # 2 THEN Raised("ValueError", trace)
           ELSE Out("none", NoTx,
                    Some(callResp.res[2] * (2 ^ HighShift) + callResp.res[1]),
                    trace)

\* ---- what callers pass and what the client answers

MaxFees == {None, Some(0), Some(5)}

Versions == {None, Some(0), Some(1), Some(2)}

NonceResponses == {None, Some(3)}

FeeResponses == {None, Some(15)}

SendResponses == {None, Some(1)}

OneCall == <<Call(1, 3, <<5, 9>>)>>

TwoCalls == <<Call(1, 3, <<5>>), Call(2, 3, <<>>)>>

\* AccountClient(address, client, signer, key_pair, chain, supported_tx_version);
\* no method changes the account, so one call on each account constructed
\* covers every sequence of calls.
Construct ==
    /\ aop \in {"none", "__init__"}
    /\ \E address \in {IntAddress(7)}, net \in Nets,
       signer \in {None, Some(CustomSigner)}, key_pair \in {None, Some(11)},
       chain \in {None, Some("TESTNET")}, stv \in {0, 1, 2} :
        LET r == AccountClient_init(address, net, signer, key_pair, chain, stv)
        IN
           /\ acct' = r.account
           /\ aop' = "__init__"
           /\ aargs' = Args([address |-> address, net |-> net,
                             signer |-> signer, key_pair |-> key_pair,
                             chain |-> chain, supported_tx_version |-> stv])
           /\ aerr' = r.err
           /\ aret' = NoRet
           /\ atrace' = <<>>
           /\ UNCHANGED notAcctVars

\* The account is constructed and no method has been called on it.
Ready == acct.constructed /\ aop = "__init__"

\* A method call on the account came to out.
Called(name, args, out) ==
    /\ aop' = name
    /\ aargs' = Args(args)
    /\ aerr' = out.err
    /\ aret' = Ret(out.tx, out.val)
    /\ atrace' = out.trace
    /\ UNCHANGED <<acct, notAcctVars>>

CallPrepareInvokeFunction ==
    /\ Ready
    /\ \E cs \in {OneCall, TwoCalls}, max_fee \in MaxFees,
          auto_estimate \in BOOLEAN, version \in Versions,
          nonceResp \in NonceResponses, feeResp \in FeeResponses :
        Called("prepare_invoke_function",
               [calls |-> cs, max_fee |-> max_fee,
                auto_estimate |-> auto_estimate, version |-> version,
                nonceResp |-> nonceResp, feeResp |-> feeResp],
               prepare_invoke_function(acct, cs, max_fee, auto_estimate,
                                       version, nonceResp, feeResp))

CallSignInvokeTransaction ==
    /\ Ready
    /\ \E cs \in {OneCall}, max_fee \in MaxFees,
          auto_estimate \in BOOLEAN, version \in Versions,
          nonceResp \in NonceResponses, feeResp \in FeeResponses :
        Called("sign_invoke_transaction",
               [calls |-> cs, max_fee |-> max_fee,
                auto_estimate |-> auto_estimate, version |-> version,
                nonceResp |-> nonceResp, feeResp |-> feeResp],
               sign_invoke_transaction(acct, cs, max_fee, auto_estimate,
                                       version, nonceResp, feeResp))

CallExecute ==
    /\ Ready
    /\ \E cs \in {OneCall}, max_fee \in MaxFees,
          auto_estimate \in BOOLEAN, version \in Versions,
          nonceResp \in NonceResponses, feeResp \in FeeResponses,
          sendResp \in SendResponses :
        Called("execute",
               [calls |-> cs, max_fee |-> max_fee,
                auto_estimate |-> auto_estimate, version |-> version,
                nonceResp |-> nonceResp, feeResp |-> feeResp,
                sendResp |-> sendResp],
               execute(acct, cs, max_fee, auto_estimate, version, nonceResp,
                       feeResp, sendResp))

CallSignDeclareTransaction ==
    /\ Ready
    /\ \E compiled \in {None, Some(21)}, max_fee \in MaxFees,
          auto_estimate \in BOOLEAN,
          nonceResp \in NonceResponses, feeResp \in FeeResponses :
        Called("sign_declare_transaction",
               [compiled |-> compiled, max_fee |-> max_fee,
                auto_estimate |-> auto_estimate,
                nonceResp |-> nonceResp, feeResp |-> feeResp],
               sign_declare_transaction(acct, compiled, max_fee, auto_estimate,
                                        nonceResp, feeResp))

CallSignDeployAccountTransaction ==
    /\ Ready
    /\ \E constructor_calldata \in {None, Some(<<>>), Some(<<4>>)},
          max_fee \in MaxFees, auto_estimate \in BOOLEAN,
          feeResp \in FeeResponses :
        Called("sign_deploy_account_transaction",
               [body |-> constructor_calldata, max_fee |-> max_fee,
                auto_estimate |-> auto_estimate, feeResp |-> feeResp],
               sign_deploy_account_transaction(acct, 31, 2,
                    constructor_calldata, max_fee, auto_estimate, feeResp))

ErrorMessages ==
    {<<"Signature", "ws", "x", ",", "ws", "is", "ws", "invalid">>,
     <<"x", "Signature", "nl", "x", "ws", "x", ",", "nl", "is", "ws",
       "invalid", "x">>,
     <<"Signature", "ws", ",", "ws", "is", "ws", "invalid">>,
     <<"Signature", "ws", "is", "ws", "invalid">>,
     <<"Signature", "ws", "x", "nl", ",", "ws", "is", "ws", "invalid">>,
     <<"x">>}

VerifyResponses ==
    {Response("ok", <<>>, <<1>>), Response("TimeoutError", <<>>, <<>>)}
        \cup {Response("ClientError", m, <<>>) : m \in ErrorMessages}

CallVerifyMessage ==
    /\ Ready
    /\ \E typed_data \in {1, 2}, signature \in {<<>>, <<8, 9>>},
          callResp \in VerifyResponses :
        Called("verify_message",
               [typed_data |-> typed_data, signature |-> signature,
                callResp |-> callResp],
               verify_message(acct, typed_data, signature, callResp))

TokenAddresses ==
    {None, Some(IntAddress(0)), Some(IntAddress(5)), Some(StrAddress(0)),
     Some(StrAddress(5))}

BalanceResponses ==
    {Response("ok", <<>>, <<15, 2>>), Response("ok", <<>>, <<0, 1>>),
     Response("ok", <<>>, <<1>>), Response("ClientError", <<"x">>, <<>>)}

CallGetBalance ==
    /\ Ready
    /\ \E token_address \in TokenAddresses, callResp \in BalanceResponses :
        Called("get_balance",
               [token_address |-> token_address, callResp |-> callResp],
               get_balance(acct, token_address, callResp))

AcctNext ==
    \/ Construct
    \/ CallPrepareInvokeFunction
    \/ CallSignInvokeTransaction
    \/ CallExecute
    \/ CallSignDeclareTransaction
    \/ CallSignDeployAccountTransaction
    \/ CallVerifyMessage
    \/ CallGetBalance

SpecAccount == Init /\ [][AcctNext]_vars

\* ---------------------------------------------------------------- properties

OutOfRange(v) == v < 0 \/ v >= FIELD_PRIME

InRange(v) == 0 <= v /\ v < FIELD_PRIME

IsInteger(val) == val.kind \in {"int", "bool"}

\* A step that is one deserialize call which finds a felt to read.
ReadsFelt == calls' = calls + 1 /\ position < Len(data)

\* A step that is one deserialize call on an exhausted cursor.
ReadsPastEnd == calls' = calls + 1 /\ position >= Len(data)

\* C1: serializing an integer v < 0 or v >= P raises InvalidValueError and
\* emits nothing, and a deserialize call that reads such a v raises
\* InvalidValueError and returns nothing: the value is never passed on, as
\* it is or reduced modulo P.
C1_RangeEnforcement ==
    [][/\ (op' = "serialize" /\ value'.kind = "int" /\ OutOfRange(value'.v))
            => (serErr' = "InvalidValueError" /\ output' = <<>>)
       /\ (ReadsFelt /\ OutOfRange(data[position + 1]))
            => /\ desErr' = "InvalidValueError"
               /\ result' = <<>>
               /\ returned' = returned]_vars

C1_Witness ==
    /\ op = "serialize"
    /\ value = IntValue(FIELD_PRIME + 1)
    /\ serErr = "InvalidValueError"
    /\ output = <<>>

\* C2: serializing an integer v with 0 <= v < P succeeds and emits exactly
\* one felt, which equals v.
C2_InRangeEmitsValue ==
    (op = "serialize" /\ IsInteger(value) /\ InRange(value.v))
        => (serErr = "none" /\ output = <<value.v>>)

C2_Witness ==
    /\ op = "serialize"
    /\ value = IntValue(FIELD_PRIME - 1)
    /\ output = <<FIELD_PRIME - 1>>
    /\ serErr = "none"

\* C3: for an integer v with 0 <= v < P, serialize(v) succeeds and one
\* deserialize call on a cursor over its output returns v and leaves the
\* cursor at its end; serialize(P) raises InvalidValueError and emits
\* nothing.
C3_RoundTrip ==
    /\ (op = "serialize" /\ IsInteger(value) /\ InRange(value.v))
        => serErr = "none"
    /\ (op = "deserialize" /\ fromOutput /\ IsInteger(value) /\ calls = 1)
        => /\ desErr = "none"
           /\ result = <<value.v>>
           /\ position = Len(data)
    /\ (op = "serialize" /\ value = IntValue(FIELD_PRIME))
        => (serErr = "InvalidValueError" /\ output = <<>>)

C3_Witness ==
    /\ op = "deserialize"
    /\ fromOutput
    /\ calls = 1
    /\ value = IntValue(FIELD_PRIME - 1)
    /\ result = <<FIELD_PRIME - 1>>
    /\ position = Len(data)

\* C4: every felt serialize emits and every felt deserialize returns lies
\* in [0, P), and serialize emits no felt that it has not checked against
\* that range, whether its input was an integer or a string.
C4_EveryFeltChecked ==
    /\ \A i \in 1..Len(output) : InRange(output[i])
    /\ \A i \in 1..Len(result) : InRange(result[i])
    /\ (op = "serialize" /\ output # <<>>)
        => \E i \in 1..Len(checks) : checks[i] = "range"

\* C5: given a string, serialize warns of the deprecation and, when the
\* string has a short-string encoding, makes the type check and the range
\* check on the encoding before it emits it as the one felt.
C5_StringTreatedAsInteger ==
    (op = "serialize" /\ value.kind = "str")
        => /\ warned
           /\ encode_shortstring(value.s).err = "none"
                => /\ checks = <<"type", "range">>
                   /\ output = <<encode_shortstring(value.s).value>>

\* C6: a deserialize call on a cursor with a felt left advances the
\* position by exactly 1 and, when that felt is in [0, P), returns it
\* unchanged; when it is not, the call raises InvalidValueError.
C6_ReadsExactlyOne ==
    [][ReadsFelt
        => /\ position' = position + 1
           /\ InRange(data[position + 1])
                => (desErr' = "none" /\ result' = <<data[position + 1]>>)
           /\ OutOfRange(data[position + 1])
                => (desErr' = "InvalidValueError" /\ result' = <<>>)]_vars

C6_Witness ==
    /\ op = "deserialize"
    /\ Len(data) >= 2
    /\ calls = 2
    /\ position = 2
    /\ desErr = "none"
    /\ result = <<data[2]>>
    /\ data[1] # data[2]

\* C7: a deserialize call on a cursor with no felt left raises
\* EndOfBufferError and returns no value.
C7_EndOfBuffer ==
    [][ReadsPastEnd
        => /\ desErr' = "EndOfBufferError"
           /\ result' = <<>>
           /\ returned' = returned]_vars

C7_Witness ==
    /\ op = "deserialize"
    /\ Len(data) >= 1
    /\ calls = Len(data) + 1
    /\ position = Len(data)
    /\ desErr = "EndOfBufferError"
    /\ result = <<>>

AllInRange(d) == \A i \in 1..Len(d) : InRange(d[i])

Min(a, b) == IF a < b THEN a ELSE b

\* C8: over the calls made on one cursor the position never decreases and
\* never exceeds the input's length n; when the n input felts are in range
\* the k-th call returns the k-th felt, and every call after the n-th raises
\* EndOfBufferError.
C8_CursorOrder ==
    /\ [][calls' = calls + 1 => position' >= position]_vars
    /\ [](position <= Len(data))
    /\ [](AllInRange(data)
            => /\ returned = SubSeq(data, 1, Min(calls, Len(data)))
               /\ (calls > Len(data) => desErr = "EndOfBufferError")
               /\ (calls \in 1..Len(data)
                    => (desErr = "none" /\ result = <<data[calls]>>)))

C8_Witness ==
    /\ op = "deserialize"
    /\ Len(data) = 2
    /\ AllInRange(data)
    /\ data[1] > data[2]
    /\ calls = 3
    /\ returned = data
    /\ desErr = "EndOfBufferError"

\* C9: given a value that is neither an integer nor a string, serialize
\* raises InvalidTypeError without making the range check; whenever it makes
\* the range check it has made the type check first, on an integer.
C9_TypeCheckedFirst ==
    /\ (op = "serialize" /\ value.kind = "other")
        => /\ serErr = "InvalidTypeError"
           /\ checks = <<"type">>
           /\ output = <<>>
    /\ (op = "serialize" /\ \E i \in 1..Len(checks) : checks[i] = "range")
        => (checks = <<"type", "range">> /\ IsInteger(value))

C9_Witness ==
    /\ op = "serialize"
    /\ value = OtherValue
    /\ serErr = "InvalidTypeError"
    /\ checks = <<"type">>

\* C10: a serialize call that raises an error has emitted no felt, and one
\* that raises none has emitted exactly one.
C10_NoPartialOutput ==
    op = "serialize"
        => /\ serErr # "none" => output = <<>>
           /\ serErr = "none" => Len(output) = 1

C10_Witness ==
    /\ op = "serialize"
    /\ serErr = "InvalidValueError"
    /\ value = IntValue(0 - 1)
    /\ output = <<>>

IsAscii(name) == \A i \in 1..Len(name) : name[i] < AsciiLimit

RECURSIVE LeftFold(_, _, _)
\* The left fold of pedersen_hash over the first k of args, from start.
LeftFold(start, args, k) ==
    IF k = 0 THEN start
    ELSE pedersen_hash(LeftFold(start, args, k - 1), args[k])

StorageAddressOf(name, args) ==
    LeftFold(_starknet_keccak(name), args, Len(args)) % ADDR_BOUND

RECURSIVE ConcatCalldata(_)
\* The calldata of cs, concatenated in order.
ConcatCalldata(cs) ==
    IF cs = <<>> THEN <<>>
    ELSE ConcatCalldata(SubSeq(cs, 1, Len(cs) - 1)) \o cs[Len(cs)].calldata

RECURSIVE LenBefore(_, _)
\* The sum of the calldata lengths of the calls before the i-th.
LenBefore(cs, i) ==
    IF i <= 1 THEN 0
    ELSE LenBefore(cs, i - 1) + Len(cs[i - 1].calldata)

Produced(local) == <<local.out, local.err, local.position>>

\* What the same invocation produces when it runs alone.
ProducedAlone(local) ==
    IF local.kind = "ser"
        THEN LET r == serialize_with_context(local.input) IN <<r.output, r.err, 0>>
        ELSE LET r == deserialize_with_context(local.cursor, 0) IN
             <<r.result, r.err, r.position>>

\* C11: a FeltSerializer holds no mutable state: however invocations of
\* serialize and deserialize that share it interleave, each with its own
\* context, every finished invocation has produced what it produces when run
\* alone, and the serializer's attributes are as they were.
C11_Stateless ==
    /\ self_attrs = <<>>
    /\ \A i \in 1..NumInvocations :
        (inv[i].kind # "idle" /\ inv[i].pc = "done")
            => Produced(inv[i]) = ProducedAlone(inv[i])

C11_Witness ==
    /\ inv[1].kind = "ser"
    /\ inv[1].pc = "done"
    /\ inv[1].out = <<1>>
    /\ inv[1].overlapped
    /\ inv[2].kind = "des"
    /\ inv[2].pc = "l26"
    /\ inv[2].cur = 0
    /\ self_attrs = <<>>

\* ---- AccountClient

InvokeOps == {"prepare_invoke_function", "sign_invoke_transaction", "execute"}

SignOps ==
    {"sign_invoke_transaction", "sign_declare_transaction",
     "sign_deploy_account_transaction"}

FeeOps == InvokeOps \cup SignOps

\* The version an invoke is made with.
GivenVersion ==
    IF aargs.version = None THEN acct.supported_tx_version
    ELSE aargs.version[1]

\* The call got as far as _get_max_fee.
ReachedGetMaxFee ==
    CASE aop \in InvokeOps ->
            GivenVersion = acct.supported_tx_version /\ aargs.nonceResp # None
      [] aop = "sign_declare_transaction" ->
            /\ acct.supported_tx_version = 1
            /\ aargs.compiled # None
            /\ aargs.nonceResp # None
      [] aop = "sign_deploy_account_transaction" ->
            acct.supported_tx_version = 1
      [] OTHER -> FALSE

Happened(ev) == \E i \in 1..Len(atrace) : atrace[i].ev = ev

\* The transaction the call ends with: the one returned, or for execute
\* the one sent.
FinalTx ==
    IF aop = "execute" THEN atrace[Len(atrace)].tx ELSE aret.tx

\* C12: _get_max_fee raises ValueError without estimating a fee when
\* auto_estimate is set and max_fee is not None (0 included), raises
\* ValueError when neither is given, and with only max_fee given the
\* transaction gets exactly that max_fee and no fee is estimated.
C12_GetMaxFee ==
    (aop \in FeeOps /\ ReachedGetMaxFee) =>
        /\ (aargs.auto_estimate /\ aargs.max_fee # None) =>
                aerr = "ValueError" /\ ~Happened("estimate_fee")
        /\ (~aargs.auto_estimate /\ aargs.max_fee = None) =>
                aerr = "ValueError" /\ ~Happened("estimate_fee")
        /\ (~aargs.auto_estimate /\ aargs.max_fee # None) =>
                /\ ~Happened("estimate_fee")
                /\ aop # "execute" => aerr = "none"
                /\ aerr = "none" => FinalTx.max_fee = aargs.max_fee[1]

C12_Witness ==
    /\ aop = "sign_declare_transaction"
    /\ ReachedGetMaxFee
    /\ aargs.auto_estimate
    /\ aargs.max_fee = Some(0)
    /\ aerr = "ValueError"

\* C13: prepare_invoke_function, sign_invoke_transaction and execute raise
\* ValueError before any request or signing when the version, given or
\* defaulted, is not the account's supported_tx_version; a version of None
\* is the supported one and passes the check.
C13_VersionChecked ==
    aop \in InvokeOps =>
        /\ GivenVersion # acct.supported_tx_version =>
                aerr = "ValueError" /\ atrace = <<>>
        /\ aargs.version = None => atrace # <<>>

C13_Witness ==
    /\ aop = "execute"
    /\ aargs.version = Some(2)
    /\ acct.supported_tx_version = 1
    /\ aerr = "ValueError"
    /\ atrace = <<>>

\* C14: sign_declare_transaction and sign_deploy_account_transaction raise
\* ValueError before compiling, fetching a nonce, estimating or signing
\* when supported_tx_version is not 1, and a transaction they return has
\* version 1.
C14_VersionOneOnly ==
    aop \in {"sign_declare_transaction", "sign_deploy_account_transaction"} =>
        /\ acct.supported_tx_version # 1 =>
                aerr = "ValueError" /\ atrace = <<>> /\ aret.tx = NoTx
        /\ aerr = "none" =>
                acct.supported_tx_version = 1 /\ aret.tx.version = 1

C14_Witness ==
    /\ aop = "sign_deploy_account_transaction"
    /\ acct.supported_tx_version = 2
    /\ aargs.max_fee = Some(5)
    /\ ~aargs.auto_estimate
    /\ aerr = "ValueError"

\* C15: the transaction returned by sign_invoke_transaction,
\* sign_declare_transaction and sign_deploy_account_transaction carries the
\* signer's signature of the transaction with the returned max_fee, which
\* is the last one signed, and differs from it in signature only.
C15_SignedWithFinalFee ==
    (aop \in SignOps /\ aerr = "none") =>
        LET last == atrace[Len(atrace)] IN
        /\ last.ev = "sign_transaction"
        /\ last.tx.max_fee = aret.tx.max_fee
        /\ last.tx.signature = <<>>
        /\ aret.tx.signature = sign_transaction(acct.signer, last.tx)
        /\ [aret.tx EXCEPT !.signature = <<>>] = last.tx
        /\ aargs.auto_estimate =>
                aret.tx.max_fee = (aargs.feeResp[1] * 11) \div 10
        /\ ~aargs.auto_estimate => aret.tx.max_fee = aargs.max_fee[1]

C15_Witness ==
    /\ aop = "sign_declare_transaction"
    /\ aerr = "none"
    /\ aargs.auto_estimate
    /\ aret.tx.max_fee = 16
    /\ Len(aret.tx.signature) = 5
    /\ Happened("estimate_fee")

C17_VerifyMessage ==
    aop = "verify_message" =>
        /\ Len(atrace) = 1
        /\ atrace[1].ev = "call_contract"
        /\ atrace[1].call =
                ContractCall(acct.address, "is_valid_signature",
                             <<hash_message(acct, aargs.typed_data),
                               Len(aargs.signature)>> \o aargs.signature,
                             "pending")
        /\ aret.val = Some(TRUE) <=> aargs.callResp.kind = "ok"
        /\ aargs.callResp.kind = "ClientError" =>
                IF SignatureIsInvalid(aargs.callResp.message)
                    THEN aerr = "none" /\ aret.val = Some(FALSE)
                    ELSE aerr = "ClientError" /\ aret.val = None
        /\ aargs.callResp =
                Response("ClientError",
                         <<"Signature", "ws", "x", ",", "ws", "is", "ws",
                           "invalid">>, <<>>)
                => aret.val = Some(FALSE)
        /\ aargs.callResp = Response("ClientError", <<"x">>, <<>>)
                => aerr = "ClientError"

C17_Witness ==
    /\ aop = "verify_message"
    /\ aargs.signature = <<8, 9>>
    /\ aargs.callResp.kind = "ClientError"
    /\ aerr = "none"
    /\ aret.val = Some(FALSE)

PredefinedNet == acct.net \in {"testnet", "testnet2", "mainnet"}

\* C18: get_balance reads balanceOf of the token_address that is given
\* whenever one is given, and of the fee token only when none is given;
\* with none given on a network that is not predefined it raises
\* ValueError without calling the contract; the balance is
\* (high << 128) + low.
C18_GetBalance ==
    aop = "get_balance" =>
        /\ aargs.token_address # None =>
                /\ Len(atrace) = 1
                /\ atrace[1].call.selector = "balanceOf"
                /\ atrace[1].call.to_addr = aargs.token_address[1].n
        /\ (aargs.token_address = None /\ PredefinedNet) =>
                /\ Len(atrace) = 1
                /\ atrace[1].call.to_addr = FEE_CONTRACT_ADDRESS
        /\ (aargs.token_address = None /\ ~PredefinedNet) =>
                aerr = "ValueError" /\ atrace = <<>>
        /\ aerr = "none" =>
                aret.val = Some(aargs.callResp.res[2] * (2 ^ HighShift)
                                    + aargs.callResp.res[1])

=============================================================================
